---- MODULE Spec2Model ----
(***************************************************************************)
(* Task-dispatch core of pi-knight: durable-consumer reconciliation       *)
(* (subscribe), message intake (the async iterator returned by subscribe), *)
(* the concurrency scheduler (processTask and the message loop of main)    *)
(* and the shutdown coordinator, with the payload decode, the per-task     *)
(* timeout and the broker connection's status events.                      *)
(*                                                                         *)
(* Conventions.  Topics are numbered so that the numeric order is the      *)
(* string order Array.prototype.sort uses.  Durations are kept in          *)
(* milliseconds: the code multiplies by 1_000_000 to get nanoseconds,      *)
(* which is exact and injective on the values used, and 32-bit integers    *)
(* cannot hold the products.  JSON.stringify on arrays of strings is       *)
(* injective, so comparing the stringified arrays is sequence equality.    *)
(***************************************************************************)
EXTENDS Integers, Sequences, FiniteSets, TLC

\* ---------------------------------------------------------------- bounds
MaxMsgs == 3
MaxRuns == 2

\* ------------------------------------------------------ program constants
AckWaitBufferMs == 60000
LegacyAckWaitMs == 30000
DesiredMaxDeliver == 1

Null == "null"
\* an optional value: None for undefined or absent, Some(x) otherwise
None == <<>>
Some(x) == <<x>>
Topics == {1, 2}
DeliverNew == "new"
DeliverAll == "all"

\* ----------------------------------------------------------------- state
VARIABLES
  cfg,          \* KnightConfig: subscribeTopics, taskTimeoutMs, maxConcurrentTasks
  srv,          \* the durable consumer's config on the broker: None or Some(config)
  mainpc,       \* position of main(): connect, info, delete, add, consume, running, fatal, crashed, exited
  ops,          \* broker consumer calls issued by this run's subscribe, in order
  failed,       \* broker calls of this run that rejected
  reconciled,   \* this run's consumers.add resolved
  run,          \* number of the current process run
  everOk,       \* an earlier run's reconciliation succeeded
  prevOps,      \* the consumer calls the previous run issued
  srv0,         \* srv as it was when this run started
  activeCount,  \* main: let activeCount
  taskQueue,    \* main: const taskQueue
  shuttingDown, \* main: let shuttingDown
  st,           \* per message: where its handling stands
  elog,         \* per message: the calls made for it, in program order
  kind,         \* per message: what the empty check makes of its payload
  lastRaw,      \* the payload of the message the iterator took last
  enqLog,       \* messages in the order they were pushed on taskQueue
  deqLog,       \* messages in the order they were shifted off taskQueue
  sdpc,         \* position of shutdown(): idle, poll, drain, ncdrain, stophealth, done
  sdlog,        \* the calls shutdown() has made, in program order
  sdpc2,        \* position of a second shutdown() started by a further signal
  link,         \* the broker connection: none, up, down, closed
  connected,    \* nats.ts: let connected
  attempts,     \* reconnect attempts made since the connection went down
  gauge,        \* metrics.natsConnected: the value last set, 0 before any set
  activeTaskCount, \* health.ts: let activeTaskCount
  lateShift,    \* messages shifted off taskQueue while shuttingDown was set
  parsedMs,     \* per message: parsed.timeoutMs, NoMs for undefined
  entryMs,      \* per message: timeoutMs of its taskQueue entry, NoMs if never queued
  timerMs,      \* per message: the delay its setTimeout was called with, NoMs if none
  session,      \* knight.ts: let session; 0 is null, else the AgentSession's number
  created,      \* number of createAgentSession calls made
  epc,          \* per executeTask call: idle, creating, prompt, returned, threw
  sessOf,       \* per call: const sess, 0 before getSession resolved
  stats,        \* per AgentSession: the cumulative cost getSessionStats() reports
  lastText,     \* per AgentSession: the call whose assistant output is the last
  costBefore,   \* per call: const costBefore
  own,          \* per call: the cost its own prompt has run up
  taskCost,     \* per call: the cost in the TaskResult, -1 while there is none
  resultText,   \* per call: the call whose output the TaskResult carries, 0 for none
  abortedBy,    \* per call: the calls whose abort handler aborted its prompt
  tpc,          \* nats_request execute: idle, called, publishing, waiting, returned, threw
  tstep,        \* nats_request: how many of its two broker calls it has made
  tsub,         \* the subscription on the result subject: none, active, ended
  ttask,        \* the task message: none, sent
  tres,         \* the result message: none, lost, or the kind the subscription holds
  tout,         \* the text execute returned, by kind; none while it has not returned
  graceElapsed  \* Date.now() - start >= maxWait

vars == <<cfg, srv, mainpc, ops, failed, reconciled, run, everOk, prevOps, srv0,
          activeCount,
          taskQueue, shuttingDown, st, elog, kind, lastRaw, enqLog, deqLog, sdpc, sdlog,
          graceElapsed, sdpc2, link, connected, attempts, gauge, activeTaskCount, lateShift, parsedMs, entryMs, timerMs,
          session, created, epc, sessOf, stats, lastText, costBefore, own, taskCost,
          resultText, abortedBy, tpc, tstep, tsub, ttask, tres, tout>>

toolVars == <<tpc, tstep, tsub, ttask, tres, tout>>

engVars == <<session, created, epc, sessOf, stats, lastText, costBefore, own, taskCost,
             resultText, abortedBy>>

connVars == <<link, connected, attempts, gauge>>

schedVars == <<activeCount, activeTaskCount, lateShift, parsedMs, entryMs, timerMs, taskQueue, shuttingDown, st, elog, kind,
               lastRaw, enqLog, deqLog, sdpc, sdlog, graceElapsed, sdpc2>>
reconVars == <<srv, ops, failed, reconciled, run, everOk, prevOps, srv0>>

Msgs == 1..MaxMsgs

\* ------------------------------------------------------ sequence helpers
RECURSIVE Insert(_, _)
Insert(x, s) ==
  IF s = <<>> THEN <<x>>
  ELSE IF x <= Head(s) THEN <<x>> \o s
  ELSE <<Head(s)>> \o Insert(x, Tail(s))

RECURSIVE SortedCopy(_)
\* [...xs].sort()
SortedCopy(s) == IF s = <<>> THEN <<>> ELSE Insert(Head(s), SortedCopy(Tail(s)))

Range(s) == {s[i] : i \in DOMAIN s}

Count(s, e) == Cardinality({i \in DOMAIN s : s[i] = e})

\* ------------------------------------------------ consumer reconciliation
\* ack_wait: (config.taskTimeoutMs + 60_000) * 1_000_000, kept in ms
ExpectedAckWait(c) == c.taskTimeoutMs + AckWaitBufferMs

DesiredConfigStale(c) ==
  [filter_subjects |-> Some(c.subscribeTopics), filter_subject |-> None,
   deliver_policy |-> DeliverNew, max_deliver |-> DesiredMaxDeliver,
   ack_wait |-> LegacyAckWaitMs]

DesiredConfig(c) ==
  [filter_subjects |-> Some(c.subscribeTopics), filter_subject |-> None,
   deliver_policy |-> DeliverNew, max_deliver |-> DesiredMaxDeliver,
   ack_wait |-> ExpectedAckWait(c)]

\* existing.config.filter_subjects ?? (filter_subject ? [filter_subject] : [])
ExistingFilters(e) ==
  IF e.filter_subjects # None THEN e.filter_subjects[1]
  ELSE IF e.filter_subject # None THEN <<e.filter_subject[1]>>
  ELSE <<>>

FiltersDiffer(e, c) ==
  SortedCopy(ExistingFilters(e)) # SortedCopy(c.subscribeTopics)

NeedsRecreateFilterOnly(e, c) == FiltersDiffer(e, c)

NeedsRecreateAlways(e, c) == TRUE

NeedsRecreate(e, c) ==
  \/ FiltersDiffer(e, c)
  \/ e.deliver_policy # DeliverNew
  \/ e.max_deliver # DesiredMaxDeliver
  \/ e.ack_wait # ExpectedAckWait(c)

\* The durable consumers the broker may hold when a run starts, and the
\* configurations a run may be started with.
FilterLists == {<<1>>, <<2>>, <<1, 2>>, <<2, 1>>}
TimeoutChoices == {600000, 1800000}
AckWaitChoices == {LegacyAckWaitMs} \cup {t + AckWaitBufferMs : t \in TimeoutChoices}

ServerConfigs ==
  [filter_subjects : {Some(f) : f \in FilterLists}, filter_subject : {None},
   deliver_policy : {DeliverNew, DeliverAll}, max_deliver : {1, 5},
   ack_wait : AckWaitChoices]
  \cup
  [filter_subjects : {None}, filter_subject : {Some(t) : t \in Topics} \cup {None},
   deliver_policy : {DeliverNew, DeliverAll}, max_deliver : {1, 5},
   ack_wait : AckWaitChoices]

Configs ==
  [subscribeTopics : {<<1>>, <<1, 2>>, <<2, 1>>},
   taskTimeoutMs : TimeoutChoices, maxConcurrentTasks : {1, 2}]

\* ------------------------------------------------------- scheduler helpers
AtCapacityOffByOne(ac, c) == ac > c.maxConcurrentTasks

\* activeCount >= config.maxConcurrentTasks
AtCapacity(ac, c) == ac >= c.maxConcurrentTasks

CanReleaseUnlessShutdown(q, ac, c) ==
  ~shuttingDown /\ Len(q) > 0 /\ ac < c.maxConcurrentTasks

CanReleaseLazy(q, ac, c) == Len(q) > 1 /\ ac < c.maxConcurrentTasks

CanReleaseNever(q, ac, c) == FALSE

\* taskQueue.length > 0 && activeCount < config.maxConcurrentTasks
CanRelease(q, ac, c) == Len(q) > 0 /\ ac < c.maxConcurrentTasks

QueueLast(q) == q[Len(q)]

\* the element taskQueue.shift() returns
QueueNext(q) == Head(q)

QueueRestKeep(q) == q

\* taskQueue after taskQueue.shift()
QueueRest(q) == Tail(q)

\* ------------------------------------------------------------ payload decode
\* JavaScript values as far as the decode needs them: a type tag and a text.
Str(x) == [t |-> "string", v |-> x]
Num(x) == [t |-> "number", v |-> x]
Undefined == [t |-> "undefined", v |-> ""]

\* a ?? b
Coalesce(a, b) == IF a.t = "undefined" THEN b ELSE a

\* The payloads a message may carry, by name, and the text sc.decode returns.
Payloads ==
  {"text", "blank", "jsonTask", "jsonEmptyTask", "jsonNoTask", "jsonNumberTask",
   "jsonNull"}

\* the payloads a well-behaved dispatcher sends
CorePayloads == {"jsonTask", "jsonEmptyTask"}

Raw(p) ==
  CASE p = "text" -> "slay the dragon"
    [] p = "blank" -> "  "
    [] p = "jsonTask" -> "{\"task\":\"slay\",\"task_id\":\"x1\"}"
    [] p = "jsonEmptyTask" -> "{\"task\":\"\",\"task_id\":\"x1\"}"
    [] p = "jsonNoTask" -> "{\"domain\":\"ops\"}"
    [] p = "jsonNumberTask" -> "{\"task\":5,\"task_id\":\"x1\"}"
    [] p = "jsonNull" -> "null"
    [] p = "jsonTaskTimeout" ->
         "{\"task\":\"slay\",\"task_id\":\"x1\",\"metadata\":{\"timeout_ms\":5000}}"
    [] p = "jsonTaskTimeoutCamel" ->
         "{\"task\":\"slay\",\"task_id\":\"x1\",\"metadata\":{\"timeoutMs\":0}}"

\* JSON.parse(raw): "throws", "null" or "object"
JsonParse(p) ==
  CASE p \in {"text", "blank"} -> "throws"
    [] p = "jsonNull" -> "null"
    [] OTHER -> "object"

\* the fields of the parsed object that the decode reads
JsonFields(p) ==
  CASE p \in {"jsonTask", "jsonTaskTimeout", "jsonTaskTimeoutCamel"} ->
         [task |-> Str("slay"), description |-> Undefined, message |-> Undefined,
          task_id |-> Str("x1"), taskId |-> Undefined]
    [] p = "jsonEmptyTask" ->
         [task |-> Str(""), description |-> Undefined, message |-> Undefined,
          task_id |-> Str("x1"), taskId |-> Undefined]
    [] p = "jsonNumberTask" ->
         [task |-> Num("5"), description |-> Undefined, message |-> Undefined,
          task_id |-> Str("x1"), taskId |-> Undefined]
    [] OTHER ->
         [task |-> Undefined, description |-> Undefined, message |-> Undefined,
          task_id |-> Undefined, taskId |-> Undefined]

\* subjectParts[subjectParts.length - 1]
SubjectTaskId == Str("subject-tail")

\* The try block around JSON.parse: reading a property of null throws, and the
\* catch block takes the raw payload and the subject's last segment.
ParsedTask(p) ==
  IF JsonParse(p) = "object"
    THEN LET json == JsonFields(p)
         IN [task |-> Coalesce(json.task, Coalesce(json.description,
                        Coalesce(json.message, Str(Raw(p))))),
             taskId |-> Coalesce(json.task_id, Coalesce(json.taskId, SubjectTaskId))]
    ELSE [task |-> Str(Raw(p)), taskId |-> SubjectTaskId]

\* a task timeout that is undefined
NoMs == -1

\* a ?? b on timeouts
CoalesceMs(a, b) == IF a = NoMs THEN b ELSE a

\* the payloads of a dispatcher that may set a timeout for the task
TimedPayloads == {"jsonTask", "jsonTaskTimeout", "jsonTaskTimeoutCamel"}

\* the fields of json.metadata that the decode reads; json.metadata?.x is
\* undefined when there is no metadata
MetadataFields(p) ==
  CASE p = "jsonTaskTimeout" -> [timeout_ms |-> 5000, timeoutMs |-> NoMs]
    [] p = "jsonTaskTimeoutCamel" -> [timeout_ms |-> NoMs, timeoutMs |-> 0]
    [] OTHER -> [timeout_ms |-> NoMs, timeoutMs |-> NoMs]

\* timeoutMs: json.metadata?.timeout_ms ?? json.metadata?.timeoutMs; the
\* catch block sets none
ParsedTimeoutMs(p) ==
  IF JsonParse(p) = "object"
    THEN CoalesceMs(MetadataFields(p).timeout_ms, MetadataFields(p).timeoutMs)
    ELSE NoMs

\* message loop: const timeoutMs = parsed.timeoutMs ?? config.taskTimeoutMs
LoopTimeout(ms, c) == CoalesceMs(ms, c.taskTimeoutMs)

EntryTimeoutDefault(ms, c) == c.taskTimeoutMs

\* finally: next.timeoutMs ?? config.taskTimeoutMs
EntryTimeout(ms, c) == CoalesceMs(ms, c.taskTimeoutMs)

\* String.prototype.trim on the texts used here
Trim(x) == IF x = "  " THEN "" ELSE x

\* !value
Falsy(val) ==
  \/ val.t = "undefined"
  \/ val.t = "string" /\ val.v = ""
  \/ val.t = "number" /\ val.v = "0"

EmptyCheckAbsent(val) == "task"

\* if (!parsed.task || parsed.task.trim().length === 0) continue; a truthy value
\* that is not a string has no trim method and the call throws a TypeError
EmptyCheck(val) ==
  IF Falsy(val) THEN "empty"
  ELSE IF val.t # "string" THEN "crash"
  ELSE IF Trim(val.v) = "" THEN "empty"
  ELSE "task"

KindOf(p) == EmptyCheck(ParsedTask(p).task)

Kinds == {"task", "empty", "crash"}

IntakeEventsAckLate(k) ==
  CASE k = "empty" -> <<"decode", "ack", "drop">>
    [] k = "crash" -> <<"decode", "ack", "typeerror">>
    [] OTHER -> <<"decode", "ack", "yield">>

\* the iterator body, one message: msg.ack(), decode, the empty check, yield
IntakeEvents(k) ==
  CASE k = "empty" -> <<"ack", "decode", "drop">>
    [] k = "crash" -> <<"ack", "decode", "typeerror">>
    [] OTHER -> <<"ack", "decode", "yield">>

\* where the iterator body leaves the message
IntakeStatus(k) ==
  CASE k = "empty" -> "dropped"
    [] k = "crash" -> "crashed"
    [] OTHER -> "yielded"

\* ------------------------------------------------------------ task executor
MaxCalls == 2
MaxUsage == 2

Calls == 1..MaxCalls

\* an AgentSession is numbered by the createAgentSession call that made it
Sessions == 1..MaxCalls

\* knight.ts module state before the first executeTask
InitEngine ==
  /\ session = 0
  /\ created = 0
  /\ epc = [t \in Calls |-> "idle"]
  /\ sessOf = [t \in Calls |-> 0]
  /\ stats = [x \in Sessions |-> 0]
  /\ lastText = [x \in Sessions |-> 0]
  /\ costBefore = [t \in Calls |-> 0]
  /\ own = [t \in Calls |-> 0]
  /\ taskCost = [t \in Calls |-> -1]
  /\ resultText = [t \in Calls |-> 0]
  /\ abortedBy = [t \in Calls |-> {}]

\* ------------------------------------------------------------ nats_request
\* the state of one nats_request call before the agent makes it
InitTool ==
  /\ tpc = "idle"
  /\ tstep = 0
  /\ tsub = "none"
  /\ ttask = "none"
  /\ tres = "none"
  /\ tout = "none"

\* ------------------------------------------------------------------ Init
InitSched ==
  /\ activeCount = 0
  /\ activeTaskCount = 0
  /\ lateShift = {}
  /\ parsedMs = [m \in Msgs |-> NoMs]
  /\ entryMs = [m \in Msgs |-> NoMs]
  /\ timerMs = [m \in Msgs |-> NoMs]
  /\ taskQueue = <<>>
  /\ shuttingDown = FALSE
  /\ st = [m \in Msgs |-> "none"]
  /\ elog = [m \in Msgs |-> <<>>]
  /\ kind = [m \in Msgs |-> Null]
  /\ lastRaw = Null
  /\ enqLog = <<>>
  /\ deqLog = <<>>
  /\ sdpc = "idle"
  /\ sdlog = <<>>
  /\ sdpc2 = "idle"
  /\ graceElapsed = FALSE

InitRun ==
  /\ mainpc = "connect"
  /\ link = "none"
  /\ connected = FALSE
  /\ attempts = 0
  /\ gauge = 0
  /\ ops = <<>>
  /\ failed = {}
  /\ reconciled = FALSE
  /\ run = 1
  /\ everOk = FALSE
  /\ prevOps = <<>>
  /\ srv0 = srv

Init ==
  /\ cfg \in {c \in Configs : c.subscribeTopics = <<1, 2>> /\ c.taskTimeoutMs = 1800000}
  /\ srv \in {None, Some(DesiredConfig(cfg)),
               Some([DesiredConfig(cfg) EXCEPT !.max_deliver = 5])}
  /\ InitRun
  /\ InitSched
  /\ InitEngine
  /\ InitTool

InitRecon ==
  /\ cfg \in Configs
  /\ srv \in {Some(e) : e \in ServerConfigs} \cup {None}
  /\ InitRun
  /\ InitSched
  /\ InitEngine
  /\ InitTool

\* ------------------------------------------------- main: startup, subscribe
\* subscribe: if (!nc || !js) throw new Error("NATS not connected"); the
\* rejection reaches main().catch, else subscribe goes on to consumers.info
SubscribeEntry(l) == IF l = "none" THEN "fatal" ELSE "info"

\* connectNats resolved: connected = true; main sets the natsConnected gauge
\* to 1; subscribe calls jsm.consumers.info
ConnectOk ==
  /\ mainpc = "connect"
  /\ link' = "up"
  /\ mainpc' = SubscribeEntry(link')
  /\ connected' = TRUE
  /\ gauge' = 1
  /\ ops' = Append(ops, "info")
  /\ UNCHANGED <<cfg, engVars, toolVars, attempts, srv, failed, reconciled, run, everOk, prevOps, srv0, schedVars>>

\* connectNats rejected: main().catch, process.exit(1)
ConnectFail ==
  /\ mainpc = "connect"
  /\ mainpc' = "fatal"
  /\ UNCHANGED <<cfg, engVars, toolVars, connVars, srv, ops, failed, reconciled, run, everOk, prevOps, srv0, schedVars>>

\* consumers.info returned the existing consumer
InfoFound ==
  /\ mainpc = "info"
  /\ srv # None
  /\ IF NeedsRecreate(srv[1], cfg)
       THEN /\ mainpc' = "delete"
            /\ ops' = Append(ops, "delete")
       ELSE /\ mainpc' = "add"
            /\ ops' = Append(ops, "create")
  /\ UNCHANGED <<cfg, engVars, toolVars, connVars, srv, failed, reconciled, run, everOk, prevOps, srv0, schedVars>>

\* consumers.info rejected because there is no such consumer: the catch block
InfoNotFound ==
  /\ mainpc = "info"
  /\ srv = None
  /\ mainpc' = "add"
  /\ ops' = Append(ops, "create")
  /\ UNCHANGED <<cfg, engVars, toolVars, connVars, srv, failed, reconciled, run, everOk, prevOps, srv0, schedVars>>

\* consumers.info rejected for another reason: the same catch block
InfoError ==
  /\ mainpc = "info"
  /\ failed' = failed \cup {"info"}
  /\ mainpc' = "add"
  /\ ops' = Append(ops, "create")
  /\ UNCHANGED <<cfg, engVars, toolVars, connVars, srv, reconciled, run, everOk, prevOps, srv0, schedVars>>

\* consumers.delete resolved
DeleteOk ==
  /\ mainpc = "delete"
  /\ srv' = None
  /\ mainpc' = "add"
  /\ ops' = Append(ops, "create")
  /\ UNCHANGED <<cfg, engVars, toolVars, connVars, failed, reconciled, run, everOk, prevOps, srv0, schedVars>>

\* consumers.delete rejected: caught by the catch block around info and delete
DeleteFail ==
  /\ mainpc = "delete"
  /\ failed' = failed \cup {"delete"}
  /\ mainpc' = "add"
  /\ ops' = Append(ops, "create")
  /\ UNCHANGED <<cfg, engVars, toolVars, connVars, srv, reconciled, run, everOk, prevOps, srv0, schedVars>>

\* The forms in which the broker may report the config it was given: a single
\* filter may come back in filter_subject.
StoredForms(d) ==
  {d} \cup
  (IF Len(d.filter_subjects[1]) = 1
     THEN {[d EXCEPT !.filter_subjects = None,
                     !.filter_subject = Some(d.filter_subjects[1][1])]}
     ELSE {})

\* consumers.add resolved: the broker holds the desired config
AddOk ==
  /\ mainpc = "add"
  /\ \E d \in StoredForms(DesiredConfig(cfg)) : srv' = Some(d)
  /\ reconciled' = TRUE
  /\ mainpc' = "consume"
  /\ UNCHANGED <<cfg, engVars, toolVars, connVars, ops, failed, run, everOk, prevOps, srv0, schedVars>>

AddFailIgnored ==
  /\ mainpc = "add"
  /\ failed' = failed \cup {"add"}
  /\ mainpc' = "consume"
  /\ UNCHANGED <<cfg, engVars, toolVars, connVars, srv, ops, reconciled, run, everOk, prevOps, srv0, schedVars>>

\* consumers.add rejected: subscribe rejects, main().catch, process.exit(1)
AddFail ==
  /\ mainpc = "add"
  /\ failed' = failed \cup {"add"}
  /\ mainpc' = "fatal"
  /\ UNCHANGED <<cfg, engVars, toolVars, connVars, srv, ops, reconciled, run, everOk, prevOps, srv0, schedVars>>

\* consumers.get(...).consume() resolved; main starts the message loop and
\* registers the signal handlers
ConsumeOk ==
  /\ mainpc = "consume"
  /\ mainpc' = "running"
  /\ UNCHANGED <<cfg, engVars, toolVars, connVars, reconVars, schedVars>>

\* consumers.get(...).consume() rejected: subscribe rejects, process.exit(1)
ConsumeFail ==
  /\ mainpc = "consume"
  /\ mainpc' = "fatal"
  /\ UNCHANGED <<cfg, engVars, toolVars, connVars, reconVars, schedVars>>

\* ------------------------------------------------------------ message intake
\* The for-await loop of main is waiting on the iterator: no yielded task is
\* pending, the loop has not left through break, the consumer is not closed.
LoopWaitingBackpressure ==
  /\ mainpc = "running"
  /\ sdpc \in {"idle", "poll"}
  /\ \A m \in Msgs : st[m] \notin {"yielded", "discarded"}
  /\ activeCount < cfg.maxConcurrentTasks

LoopWaiting ==
  /\ mainpc = "running"
  /\ sdpc \in {"idle", "poll"}
  /\ \A m \in Msgs : st[m] \notin {"yielded", "discarded"}

NextMsg(m) == st[m] = "none" /\ \A n \in Msgs : n < m => st[n] # "none"

\* The iterator body for one delivered message, up to continue or yield.  A
\* TypeError thrown by the empty check leaves the generator, rejects the
\* promise of the message loop, which nothing handles, and the runtime ends
\* the process with exit code 1.
Intake(m, p) ==
  /\ LoopWaiting
  /\ NextMsg(m)
  /\ lastRaw' = p
  /\ kind' = [kind EXCEPT ![m] = KindOf(p)]
  /\ elog' = [elog EXCEPT ![m] = IntakeEvents(KindOf(p))]
  /\ st' = [st EXCEPT ![m] = IntakeStatus(KindOf(p))]
  /\ mainpc' = IF KindOf(p) = "crash" THEN "crashed" ELSE mainpc
  /\ parsedMs' = [parsedMs EXCEPT ![m] = ParsedTimeoutMs(p)]
  /\ UNCHANGED <<cfg, engVars, toolVars, lateShift, entryMs, timerMs, connVars, reconVars, activeCount, activeTaskCount, taskQueue, shuttingDown,
                 enqLog, deqLog, sdpc, sdlog, graceElapsed, sdpc2>>

\* ----------------------------------------------------------------- scheduler
LoopBreaksNever(flag) == FALSE

\* if (shuttingDown) break
LoopBreaks(flag) == flag

\* The message loop body for the yielded task.
Admit(m) ==
  /\ mainpc = "running"
  /\ st[m] = "yielded"
  /\ IF LoopBreaks(shuttingDown)
       THEN \* break
            /\ st' = [st EXCEPT ![m] = "discarded"]
            /\ elog' = [elog EXCEPT ![m] = Append(@, "discard")]
            /\ UNCHANGED <<activeCount, activeTaskCount, taskQueue, enqLog, entryMs, timerMs>>
       ELSE IF AtCapacity(activeCount, cfg)
       THEN \* taskQueue.push
            /\ st' = [st EXCEPT ![m] = "queued"]
            /\ elog' = [elog EXCEPT ![m] = Append(@, "enqueue")]
            /\ taskQueue' = Append(taskQueue, m)
            /\ enqLog' = Append(enqLog, m)
            /\ entryMs' = [entryMs EXCEPT ![m] = LoopTimeout(parsedMs[m], cfg)]
            /\ UNCHANGED <<activeCount, activeTaskCount, timerMs>>
       ELSE \* processTask up to its await of executeTask
            /\ st' = [st EXCEPT ![m] = "exec"]
            /\ elog' = [elog EXCEPT ![m] = Append(@, "dispatch")]
            /\ activeCount' = activeCount + 1
            /\ activeTaskCount' = activeCount + 1
            /\ timerMs' = [timerMs EXCEPT ![m] = LoopTimeout(parsedMs[m], cfg)]
            /\ UNCHANGED <<taskQueue, enqLog, entryMs>>
  /\ UNCHANGED <<cfg, engVars, toolVars, lateShift, parsedMs, connVars, mainpc, reconVars, kind, lastRaw,
                 shuttingDown, deqLog, sdpc, sdlog, graceElapsed, sdpc2>>

\* executeTask resolved: processTask calls publishResult with success: true
EngineReturn(m) ==
  /\ mainpc = "running"
  /\ st[m] = "exec"
  /\ st' = [st EXCEPT ![m] = "pubS"]
  /\ elog' = [elog EXCEPT ![m] = @ \o <<"return", "pubS">>]
  /\ UNCHANGED <<cfg, engVars, toolVars, lateShift, parsedMs, entryMs, timerMs, connVars, mainpc, reconVars, activeCount, activeTaskCount, taskQueue, shuttingDown, kind, lastRaw,
                 enqLog, deqLog, sdpc, sdlog, graceElapsed, sdpc2>>

\* executeTask rejected: the catch block calls publishResult with success: false
EngineThrow(m) ==
  /\ mainpc = "running"
  /\ st[m] = "exec"
  /\ st' = [st EXCEPT ![m] = "pubE"]
  /\ elog' = [elog EXCEPT ![m] = @ \o <<"throw", "pubE">>]
  /\ UNCHANGED <<cfg, engVars, toolVars, lateShift, parsedMs, entryMs, timerMs, connVars, mainpc, reconVars, activeCount, activeTaskCount, taskQueue, shuttingDown, kind, lastRaw,
                 enqLog, deqLog, sdpc, sdlog, graceElapsed, sdpc2>>

FinallyKeepsCount(m, label) ==
  LET ac == activeCount
      st1 == [st EXCEPT ![m] = "done"]
      elog1 == [elog EXCEPT ![m] = Append(@, label)]
  IN IF CanRelease(taskQueue, ac, cfg)
       THEN LET next == QueueNext(taskQueue)
            IN /\ taskQueue' = QueueRest(taskQueue)
               /\ deqLog' = Append(deqLog, next)
               /\ lateShift' = IF shuttingDown THEN lateShift \cup {next} ELSE lateShift
               /\ st' = [st1 EXCEPT ![next] = "exec"]
               /\ elog' = [elog1 EXCEPT ![next] = Append(@, "dispatch")]
               /\ activeCount' = ac + 1
               /\ activeTaskCount' = ac + 1
               /\ timerMs' = [timerMs EXCEPT ![next] = EntryTimeout(entryMs[next], cfg)]
       ELSE /\ activeCount' = ac
            /\ activeTaskCount' = ac
            /\ st' = st1
            /\ elog' = elog1
            /\ UNCHANGED <<taskQueue, deqLog, lateShift, timerMs>>

\* The rest of processTask for message m once its last publishResult call
\* has settled: tasksTotal is incremented under the given label, then the
\* finally block: activeCount--, then the head of the queue is shifted off
\* and processTask runs for it up to its await of executeTask.
Finally(m, label) ==
  LET ac == activeCount - 1
      st1 == [st EXCEPT ![m] = "done"]
      elog1 == [elog EXCEPT ![m] = Append(@, label)]
  IN IF CanRelease(taskQueue, ac, cfg)
       THEN LET next == QueueNext(taskQueue)
            IN /\ taskQueue' = QueueRest(taskQueue)
               /\ deqLog' = Append(deqLog, next)
               /\ lateShift' = IF shuttingDown THEN lateShift \cup {next} ELSE lateShift
               /\ st' = [st1 EXCEPT ![next] = "exec"]
               /\ elog' = [elog1 EXCEPT ![next] = Append(@, "dispatch")]
               /\ activeCount' = ac + 1
               /\ activeTaskCount' = ac + 1
               /\ timerMs' = [timerMs EXCEPT ![next] = EntryTimeout(entryMs[next], cfg)]
       ELSE /\ activeCount' = ac
            /\ activeTaskCount' = ac
            /\ st' = st1
            /\ elog' = elog1
            /\ UNCHANGED <<taskQueue, deqLog, lateShift, timerMs>>

\* the broker connection takes publishes while it is established
ConnOpen == link = "up"

\* publishResult (success: true) resolved: metrics, then finally
PublishOk(m) ==
  /\ mainpc = "running"
  /\ st[m] = "pubS"
  /\ ConnOpen
  /\ Finally(m, "countS")
  /\ UNCHANGED <<cfg, engVars, toolVars, parsedMs, entryMs, connVars, mainpc, reconVars, shuttingDown, kind, lastRaw,
                 enqLog, sdpc, sdlog, graceElapsed, sdpc2>>

\* publishResult (success: true) rejected: the catch block of processTask
\* calls publishResult again, with success: false
PublishFail(m) ==
  /\ mainpc = "running"
  /\ st[m] = "pubS"
  /\ st' = [st EXCEPT ![m] = "pubE"]
  /\ elog' = [elog EXCEPT ![m] = Append(@, "pubE")]
  /\ UNCHANGED <<cfg, engVars, toolVars, lateShift, parsedMs, entryMs, timerMs, connVars, mainpc, reconVars, activeCount, activeTaskCount, taskQueue, shuttingDown, kind, lastRaw,
                 enqLog, deqLog, sdpc, sdlog, graceElapsed, sdpc2>>

\* publishResult (success: false) resolved: metrics, then finally
ErrorPublishOk(m) ==
  /\ mainpc = "running"
  /\ st[m] = "pubE"
  /\ ConnOpen
  /\ Finally(m, "countE")
  /\ UNCHANGED <<cfg, engVars, toolVars, parsedMs, entryMs, connVars, mainpc, reconVars, shuttingDown, kind, lastRaw,
                 enqLog, sdpc, sdlog, graceElapsed, sdpc2>>

\* publishResult (success: false) rejected: .catch logs, metrics, then finally
ErrorPublishFail(m) ==
  /\ mainpc = "running"
  /\ st[m] = "pubE"
  /\ Finally(m, "countE")
  /\ UNCHANGED <<cfg, engVars, toolVars, parsedMs, entryMs, connVars, mainpc, reconVars, shuttingDown, kind, lastRaw,
                 enqLog, sdpc, sdlog, graceElapsed, sdpc2>>

\* ------------------------------------------------------ shutdown coordinator
\* no yielded task is waiting for the loop body
LoopIdle == \A m \in Msgs : st[m] # "yielded"

WaitOverGraceOnly(ac, elapsed) == elapsed

WaitOverIdleOnly(ac, elapsed) == ac = 0

\* the poll loop's condition no longer holds:
\* while (activeCount > 0 && Date.now() - start < maxWait)
WaitOver(ac, elapsed) == ~(ac > 0 /\ ~elapsed)

\* what shutdown() calls when the loop has ended: log.warn if tasks are still
\* active, then drain(), which calls consumer.close()
AfterWait(ac) == (IF ac > 0 THEN <<"warn">> ELSE <<>>) \o <<"drain">>

NextStepSkipDrain(step) ==
  CASE step = "drain" -> "stophealth"
    [] step = "ncdrain" -> "stophealth"
    [] step = "stophealth" -> "done"

\* the call shutdown() makes when the call it awaits has settled:
\* consumer.close(), nc.drain(), stopHealthServer(), process.exit(0)
NextStep(step) ==
  CASE step = "drain" -> "ncdrain"
    [] step = "ncdrain" -> "stophealth"
    [] step = "stophealth" -> "done"

\* SIGTERM or SIGINT: shutdown() sets the flag and, with no task active, goes
\* straight on to drain(); otherwise it starts polling.  A signal handler
\* runs from the event loop, never between the iterator's yield and the loop
\* body that receives the value.
Signal ==
  /\ mainpc = "running"
  /\ sdpc = "idle"
  /\ LoopIdle
  /\ shuttingDown' = TRUE
  /\ IF WaitOver(activeCount, FALSE)
       THEN /\ sdpc' = "drain"
            /\ sdlog' = sdlog \o AfterWait(activeCount)
       ELSE /\ sdpc' = "poll"
            /\ UNCHANGED sdlog
  /\ UNCHANGED <<cfg, engVars, toolVars, lateShift, parsedMs, entryMs, timerMs, connVars, mainpc, reconVars, activeCount, activeTaskCount, taskQueue, st, elog, kind,
                 lastRaw, enqLog, deqLog, graceElapsed, sdpc2>>

\* maxWait (60 s) has passed since shutdown() started
GraceElapse ==
  /\ mainpc = "running"
  /\ sdpc = "poll"
  /\ ~graceElapsed
  /\ graceElapsed' = TRUE
  /\ UNCHANGED <<cfg, engVars, toolVars, lateShift, parsedMs, entryMs, timerMs, connVars, mainpc, reconVars, activeCount, activeTaskCount, taskQueue, shuttingDown, st,
                 elog, kind, lastRaw, enqLog, deqLog, sdpc, sdlog, sdpc2>>

\* the poll loop's 1 s timer fires and the loop ends
PollDone ==
  /\ mainpc = "running"
  /\ sdpc = "poll"
  /\ LoopIdle
  /\ WaitOver(activeCount, graceElapsed)
  /\ sdpc' = "drain"
  /\ sdlog' = sdlog \o AfterWait(activeCount)
  /\ UNCHANGED <<cfg, engVars, toolVars, lateShift, parsedMs, entryMs, timerMs, connVars, mainpc, reconVars, activeCount, activeTaskCount, taskQueue, shuttingDown, st,
                 elog, kind, lastRaw, enqLog, deqLog, graceElapsed, sdpc2>>

\* consumer.close() resolved (its promise resolves with void or an Error, it
\* does not reject); drain() calls nc.drain()
CloseDone ==
  /\ mainpc = "running"
  /\ sdpc = "drain"
  /\ sdpc' = NextStep(sdpc)
  /\ sdlog' = Append(sdlog, NextStep(sdpc))
  /\ UNCHANGED <<cfg, engVars, toolVars, lateShift, parsedMs, entryMs, timerMs, connVars, mainpc, reconVars, activeCount, activeTaskCount, taskQueue, shuttingDown, st,
                 elog, kind, lastRaw, enqLog, deqLog, graceElapsed, sdpc2>>

\* nc.drain() resolved: connected = false; shutdown() calls stopHealthServer
NcDrainOk ==
  /\ mainpc = "running"
  /\ sdpc = "ncdrain"
  /\ sdpc' = NextStep(sdpc)
  /\ sdlog' = Append(sdlog, NextStep(sdpc))
  /\ link' = "closed"
  /\ connected' = FALSE
  /\ gauge' = 0
  /\ UNCHANGED <<cfg, engVars, toolVars, lateShift, parsedMs, entryMs, timerMs, attempts, mainpc, reconVars, activeCount, activeTaskCount, taskQueue, shuttingDown, st,
                 elog, kind, lastRaw, enqLog, deqLog, graceElapsed, sdpc2>>

\* nc.drain() rejected: the .catch in shutdown() logs; the gauge is set to
\* 0; stopHealthServer
NcDrainFail ==
  /\ mainpc = "running"
  /\ sdpc = "ncdrain"
  /\ sdpc' = NextStep(sdpc)
  /\ sdlog' = Append(sdlog, NextStep(sdpc))
  /\ gauge' = 0
  /\ UNCHANGED <<cfg, engVars, toolVars, lateShift, parsedMs, entryMs, timerMs, link, connected, attempts, mainpc, reconVars, activeCount, activeTaskCount, taskQueue, shuttingDown, st,
                 elog, kind, lastRaw, enqLog, deqLog, graceElapsed, sdpc2>>

\* drain() settled
DrainDone == CloseDone \/ NcDrainOk \/ NcDrainFail

\* stopHealthServer resolved; process.exit(0)
Exit ==
  /\ mainpc = "running"
  /\ sdpc = "stophealth"
  /\ sdpc' = NextStep(sdpc)
  /\ sdlog' = Append(sdlog, NextStep(sdpc))
  /\ mainpc' = "exited"
  /\ UNCHANGED <<cfg, engVars, toolVars, lateShift, parsedMs, entryMs, timerMs, connVars, reconVars, activeCount, activeTaskCount, taskQueue, shuttingDown, st,
                 elog, kind, lastRaw, enqLog, deqLog, graceElapsed, sdpc2>>

\* ------------------------------------------- a second termination signal
\* process.on registers shutdown for SIGTERM and SIGINT without any guard: a
\* signal that arrives while shutdown() is in progress starts shutdown()
\* once more, with its own start time, on the same consumer, connection and
\* HTTP server.
Signal2 ==
  /\ mainpc = "running"
  /\ sdpc # "idle"
  /\ sdpc2 = "idle"
  /\ LoopIdle
  /\ shuttingDown' = TRUE
  /\ IF WaitOver(activeCount, FALSE)
       THEN /\ sdpc2' = "drain"
            /\ sdlog' = sdlog \o AfterWait(activeCount)
       ELSE /\ sdpc2' = "poll"
            /\ UNCHANGED sdlog
  /\ UNCHANGED <<cfg, engVars, toolVars, lateShift, parsedMs, entryMs, timerMs, connVars, mainpc, reconVars, activeCount, activeTaskCount, taskQueue, st, elog, kind,
                 lastRaw, enqLog, deqLog, sdpc, graceElapsed>>

\* maxWait has passed since the second shutdown() started, which is after it
\* has passed for the first
GraceElapse2 ==
  /\ mainpc = "running"
  /\ sdpc2 = "poll"
  /\ graceElapsed
  /\ sdpc2' = "pollover"
  /\ UNCHANGED <<cfg, engVars, toolVars, lateShift, parsedMs, entryMs, timerMs, connVars, mainpc, reconVars, activeCount, activeTaskCount, taskQueue, shuttingDown, st,
                 elog, kind, lastRaw, enqLog, deqLog, sdpc, sdlog, graceElapsed>>

PollDone2 ==
  /\ mainpc = "running"
  /\ sdpc2 \in {"poll", "pollover"}
  /\ LoopIdle
  /\ WaitOver(activeCount, sdpc2 = "pollover")
  /\ sdpc2' = "drain"
  /\ sdlog' = sdlog \o AfterWait(activeCount)
  /\ UNCHANGED <<cfg, engVars, toolVars, lateShift, parsedMs, entryMs, timerMs, connVars, mainpc, reconVars, activeCount, activeTaskCount, taskQueue, shuttingDown, st,
                 elog, kind, lastRaw, enqLog, deqLog, sdpc, graceElapsed>>

\* consumer.close() resolved for the second shutdown(); drain() calls
\* nc.drain()
CloseDone2 ==
  /\ mainpc = "running"
  /\ sdpc2 = "drain"
  /\ sdpc2' = NextStep(sdpc2)
  /\ sdlog' = Append(sdlog, NextStep(sdpc2))
  /\ UNCHANGED <<cfg, engVars, toolVars, lateShift, parsedMs, entryMs, timerMs, connVars, mainpc, reconVars, activeCount, activeTaskCount, taskQueue, shuttingDown, st,
                 elog, kind, lastRaw, enqLog, deqLog, sdpc, graceElapsed>>

\* nc.drain() resolved for the second shutdown()
NcDrainOk2 ==
  /\ mainpc = "running"
  /\ sdpc2 = "ncdrain"
  /\ sdpc2' = NextStep(sdpc2)
  /\ sdlog' = Append(sdlog, NextStep(sdpc2))
  /\ link' = "closed"
  /\ connected' = FALSE
  /\ gauge' = 0
  /\ UNCHANGED <<cfg, engVars, toolVars, lateShift, parsedMs, entryMs, timerMs, attempts, mainpc, reconVars, activeCount, activeTaskCount, taskQueue, shuttingDown, st,
                 elog, kind, lastRaw, enqLog, deqLog, sdpc, graceElapsed>>

\* nc.drain() rejected for the second shutdown(), as it does on a connection
\* that is already draining or closed
NcDrainFail2 ==
  /\ mainpc = "running"
  /\ sdpc2 = "ncdrain"
  /\ sdpc2' = NextStep(sdpc2)
  /\ sdlog' = Append(sdlog, NextStep(sdpc2))
  /\ gauge' = 0
  /\ UNCHANGED <<cfg, engVars, toolVars, lateShift, parsedMs, entryMs, timerMs, link, connected, attempts, mainpc, reconVars, activeCount, activeTaskCount, taskQueue, shuttingDown, st,
                 elog, kind, lastRaw, enqLog, deqLog, sdpc, graceElapsed>>

\* stopHealthServer resolved for the second shutdown(); process.exit(0)
Exit2 ==
  /\ mainpc = "running"
  /\ sdpc2 = "stophealth"
  /\ sdpc2' = NextStep(sdpc2)
  /\ sdlog' = Append(sdlog, NextStep(sdpc2))
  /\ mainpc' = "exited"
  /\ UNCHANGED <<cfg, engVars, toolVars, lateShift, parsedMs, entryMs, timerMs, connVars, reconVars, activeCount, activeTaskCount, taskQueue, shuttingDown, st,
                 elog, kind, lastRaw, enqLog, deqLog, sdpc, graceElapsed>>

Shutdown2 ==
  \/ Signal2 \/ GraceElapse2 \/ PollDone2
  \/ CloseDone2 \/ NcDrainOk2 \/ NcDrainFail2 \/ Exit2

\* ---------------------------------------------------------- task timeout
OnAbortForced == [status |-> "pubE", calls |-> <<"abort", "pubE">>]

\* controller.abort() only raises the signal: processTask has no listener on
\* it and stays in its await of executeTask
OnAbort == [status |-> "exec", calls |-> <<"abort">>]

\* The timer set at dispatch fires while executeTask is pending.  (Once
\* executeTask has settled its abort listener is removed and nothing reads
\* the signal, so a later firing changes nothing.)
Timeout(m) ==
  /\ mainpc = "running"
  /\ st[m] = "exec"
  /\ Count(elog[m], "abort") = 0
  /\ st' = [st EXCEPT ![m] = OnAbort.status]
  /\ elog' = [elog EXCEPT ![m] = @ \o OnAbort.calls]
  /\ UNCHANGED <<cfg, engVars, toolVars, lateShift, parsedMs, entryMs, timerMs, connVars, mainpc, reconVars, activeCount, activeTaskCount, taskQueue, shuttingDown,
                 kind, lastRaw, enqLog, deqLog, sdpc, sdlog, graceElapsed, sdpc2>>

\* ------------------------------------------------------ result records
\* what executeTask resolves with, as far as the result record uses it
EngineResult == [cost |-> 3, tokensIn |-> 5, tokensOut |-> 2]

SuccessRecord(r) ==
  [success |-> TRUE, cost |-> r.cost, tokensIn |-> r.tokensIn, tokensOut |-> r.tokensOut]

ErrorRecordWithUsage ==
  [success |-> FALSE, cost |-> EngineResult.cost, tokensIn |-> EngineResult.tokensIn,
   tokensOut |-> EngineResult.tokensOut]

\* the record the catch block of processTask publishes
ErrorRecord == [success |-> FALSE, cost |-> 0, tokensIn |-> 0, tokensOut |-> 0]

\* the record passed to publishResult by the call logged as ev
RecordOf(ev) == IF ev = "pubS" THEN SuccessRecord(EngineResult) ELSE ErrorRecord

\* ------------------------------------------------------ broker connection
MaxAttempts == 2

\* maxReconnectAttempts: -1
ReconnectLimit == -1

GivesUpAfterOne(n) == n >= 1

\* the client stops reconnecting after n failed attempts
GivesUp(n) == ReconnectLimit >= 0 /\ n >= ReconnectLimit

ProcessUp == mainpc \in {"info", "delete", "add", "consume", "running"}

\* status event "disconnect": connected = false; the client starts to
\* reconnect
Disconnect ==
  /\ ProcessUp
  /\ link = "up"
  /\ link' = "down"
  /\ connected' = FALSE
  /\ attempts' = 0
  /\ UNCHANGED <<cfg, engVars, toolVars, gauge, mainpc, reconVars, schedVars>>

\* status event "error" on an established connection: connected = false
ConnError ==
  /\ ProcessUp
  /\ link = "up"
  /\ connected
  /\ connected' = FALSE
  /\ UNCHANGED <<cfg, engVars, toolVars, link, attempts, gauge, mainpc, reconVars, schedVars>>

\* a reconnect attempt failed; reconnectTimeWait later the client tries again
ReconnectFail ==
  /\ ProcessUp
  /\ link = "down"
  /\ attempts < MaxAttempts
  /\ attempts' = attempts + 1
  /\ link' = IF GivesUp(attempts + 1) THEN "closed" ELSE "down"
  /\ UNCHANGED <<cfg, engVars, toolVars, connected, gauge, mainpc, reconVars, schedVars>>

\* status event "reconnect": connected = true
Reconnect ==
  /\ ProcessUp
  /\ link = "down"
  /\ link' = "up"
  /\ connected' = TRUE
  /\ attempts' = 0
  /\ UNCHANGED <<cfg, engVars, toolVars, gauge, mainpc, reconVars, schedVars>>

Conn == Disconnect \/ ConnError \/ ReconnectFail \/ Reconnect

\* ------------------------------------------------------------ health server
\* /ready: const status = nats.connected ? 200 : 503
ReadyStatus(c) == IF c THEN 200 ELSE 503

\* what a GET /ready answers with: the status code and the fields of the
\* body that depend on the state of the process
ReadyResponse ==
  [code |-> ReadyStatus(connected),
   status |-> IF connected THEN "ready" ELSE "not_ready",
   nats |-> IF connected THEN "connected" ELSE "disconnected",
   activeTasks |-> activeTaskCount]

\* ------------------------------------------------- task executor: actions
mainVars == <<cfg, srv, mainpc, ops, failed, reconciled, run, everOk, prevOps, srv0,
              connVars, schedVars>>

\* the executeTask calls that have not settled
Pending == {t \in Calls : epc[t] \in {"creating", "prompt"}}

\* getSession: if (session) return session
GetSessionCached(s) == s # 0

\* statsAfter.cost - costBefore
StatsDiff(t, after, before) == after - before

\* sess.abort() names no task: it aborts what the session is running, the
\* prompt of the calling task or that of another task on the same session
AbortTargets(t) ==
  {A \in SUBSET {u \in Calls : epc[u] = "prompt" /\ sessOf[u] = sessOf[t]} : A # {}}

\* executeTask after getSession resolved with session x: the stats snapshot,
\* the abort listener, sess.prompt(task)
StartPrompt(t, x, st0) ==
  /\ sessOf' = [sessOf EXCEPT ![t] = x]
  /\ costBefore' = [costBefore EXCEPT ![t] = st0[x]]
  /\ epc' = [epc EXCEPT ![t] = "prompt"]

\* processTask calls executeTask for a dispatched task; the scheduler keeps
\* at most maxConcurrentTasks calls pending.  With the session at hand
\* getSession returns it, else it calls createAgentSession and awaits it.
ExecCall(t) ==
  /\ epc[t] = "idle"
  /\ \A u \in Calls : u < t => epc[u] # "idle"
  /\ Cardinality(Pending) < cfg.maxConcurrentTasks
  /\ IF GetSessionCached(session)
       THEN /\ StartPrompt(t, session, stats)
            /\ UNCHANGED <<created, stats>>
       ELSE /\ epc' = [epc EXCEPT ![t] = "creating"]
            /\ created' = created + 1
            /\ UNCHANGED <<sessOf, costBefore, stats>>
  /\ UNCHANGED <<mainVars, toolVars, session, lastText, own, taskCost, resultText, abortedBy>>

\* createAgentSession resolved for call t: session = newSession; the session
\* may carry earlier cost from its stored history; executeTask goes on
SessionCreated(t) ==
  /\ epc[t] = "creating"
  /\ \E x \in Sessions, prior \in 0..1 :
       /\ x = t
       /\ session' = x
       /\ stats' = [stats EXCEPT ![x] = prior]
       /\ StartPrompt(t, x, [stats EXCEPT ![x] = prior])
  /\ UNCHANGED <<mainVars, toolVars, created, lastText, own, taskCost, resultText, abortedBy>>

\* the prompt of call t makes a model call: the session's cumulative cost
\* grows and its last assistant text is now one of t's
PromptUse(t) ==
  /\ epc[t] = "prompt"
  /\ own[t] < MaxUsage
  /\ own' = [own EXCEPT ![t] = @ + 1]
  /\ stats' = [stats EXCEPT ![sessOf[t]] = @ + 1]
  /\ lastText' = [lastText EXCEPT ![sessOf[t]] = t]
  /\ UNCHANGED <<mainVars, toolVars, session, created, epc, sessOf, costBefore, taskCost, resultText,
                 abortedBy>>

\* sess.prompt resolved: the stats diff and getLastAssistantText make the
\* TaskResult
PromptReturn(t) ==
  /\ epc[t] = "prompt"
  /\ epc' = [epc EXCEPT ![t] = "returned"]
  /\ taskCost' = [taskCost EXCEPT ![t] = StatsDiff(t, stats[sessOf[t]], costBefore[t])]
  /\ resultText' = [resultText EXCEPT ![t] = lastText[sessOf[t]]]
  /\ UNCHANGED <<mainVars, toolVars, session, created, sessOf, stats, lastText, costBefore, own,
                 abortedBy>>

\* sess.prompt rejected, after an abort or for a failure of its own
PromptThrow(t) ==
  /\ epc[t] = "prompt"
  /\ epc' = [epc EXCEPT ![t] = "threw"]
  /\ UNCHANGED <<mainVars, toolVars, session, created, sessOf, stats, lastText, costBefore, own,
                 taskCost, resultText, abortedBy>>

\* the timer of call t's task fires while its prompt runs: controller.abort(),
\* the abort handler calls sess.abort()
TimerExpire(t) ==
  /\ epc[t] = "prompt"
  /\ t \notin abortedBy[t]
  /\ \A u \in Calls : t \notin abortedBy[u]
  /\ \E A \in AbortTargets(t) :
       abortedBy' = [u \in Calls |-> IF u \in A THEN abortedBy[u] \cup {t}
                                                ELSE abortedBy[u]]
  /\ UNCHANGED <<mainVars, toolVars, session, created, epc, sessOf, stats, lastText, costBefore, own,
                 taskCost, resultText>>

Engine(t) ==
  \/ ExecCall(t) \/ SessionCreated(t)
  \/ PromptUse(t) \/ PromptReturn(t) \/ PromptThrow(t)
  \/ TimerExpire(t)

NextEngine == \E t \in Calls : Engine(t)

\* ------------------------------------------------- nats_request: actions
\* the result messages the other knight may publish: a success record, a
\* failure record, a text that is not JSON, and the JSON text null
ResultKinds == {"success", "failure", "text", "jsonNull"}

ToolOrderPublishFirst == <<"publish", "subscribe">>

\* the two broker calls of execute, in program order: nc.subscribe(...), then
\* js.publish(...)
ToolOrder == <<"subscribe", "publish">>

\* if (!js || !nc) return ...; the empty-task check
ToolGuard(l, empty) ==
  IF l = "none" THEN "notconnected"
  ELSE IF empty THEN "empty"
  ELSE "go"

\* the inner try block for a received message: JSON.parse throws on a text
\* that is not JSON, result.success throws on null
ParseResult(r) ==
  CASE r = "success" -> "response"
    [] r = "failure" -> "failure"
    [] r = "text" -> "throws"
    [] r = "jsonNull" -> "throws"

\* the inner catch block: return textResult(`Raw response ...`)
InnerCatch(x) == IF x = "throws" THEN "raw" ELSE x

\* the outer catch block: the cancelled text if signal.aborted, else the
\* error text
OuterCatch(aborted) == IF aborted THEN "cancelled" ELSE "error"

\* where execute stands once it has a text to return
Returned(x) == IF x = "throws" THEN "threw" ELSE "returned"

\* The agent calls nats_request; execute runs up to its try block.  The
\* connection exists, since tools run inside tasks; it may have been drained.
ToolCall(empty) ==
  /\ tpc = "idle"
  /\ LET g == ToolGuard(link, empty)
     IN IF g = "go"
          THEN /\ tpc' = "called"
               /\ UNCHANGED tout
          ELSE /\ tout' = g
               /\ tpc' = Returned(g)
  /\ UNCHANGED <<mainVars, engVars, tstep, tsub, ttask, tres>>

\* the next of the two broker calls succeeds in being made: nc.subscribe
\* registers the subscription, js.publish puts the task on the connection
ToolStep ==
  /\ tpc = "called"
  /\ tstep < Len(ToolOrder)
  /\ ConnOpen
  /\ tstep' = tstep + 1
  /\ IF ToolOrder[tstep + 1] = "subscribe"
       THEN /\ tsub' = "active"
            /\ UNCHANGED ttask
       ELSE /\ ttask' = "sent"
            /\ UNCHANGED tsub
  /\ tpc' = IF tstep + 1 = Len(ToolOrder) THEN "publishing" ELSE tpc
  /\ UNCHANGED <<mainVars, engVars, tres, tout>>

\* a broker call throws on a connection that is closed: the outer catch
ToolStepThrows(aborted) ==
  /\ tpc = "called"
  /\ tstep < Len(ToolOrder)
  /\ ~ConnOpen
  /\ tout' = OuterCatch(aborted)
  /\ tpc' = Returned(tout')
  /\ UNCHANGED <<mainVars, engVars, tstep, tsub, ttask, tres>>

\* await js.publish resolved: execute enters the for-await on the subscription
ToolPublishAck ==
  /\ tpc = "publishing"
  /\ tpc' = "waiting"
  /\ UNCHANGED <<mainVars, engVars, tstep, tsub, ttask, tres, tout>>

\* await js.publish rejected (the task may have been stored all the same):
\* the outer catch
ToolPublishFail(aborted) ==
  /\ tpc = "publishing"
  /\ tout' = OuterCatch(aborted)
  /\ tpc' = Returned(tout')
  /\ UNCHANGED <<mainVars, engVars, tstep, tsub, ttask, tres>>

\* the other knight, having got the task, publishes its result: the broker
\* delivers it to an active subscription and to nobody otherwise
Respond(r) ==
  /\ ttask = "sent"
  /\ tres = "none"
  /\ tres' = IF tsub = "active" THEN r ELSE "lost"
  /\ UNCHANGED <<mainVars, engVars, tpc, tstep, tsub, ttask, tout>>

\* the for-await yields the message: inner try and catch, return
ToolReceive ==
  /\ tpc = "waiting"
  /\ tres \in ResultKinds
  /\ tout' = InnerCatch(ParseResult(tres))
  /\ tpc' = Returned(tout')
  /\ UNCHANGED <<mainVars, engVars, tstep, tsub, ttask, tres>>

\* timeoutMs passed since nc.subscribe with no message: the subscription ends
SubTimeout ==
  /\ tsub = "active"
  /\ tres = "none"
  /\ tpc \in {"called", "publishing", "waiting"}
  /\ tsub' = "ended"
  /\ UNCHANGED <<mainVars, engVars, tpc, tstep, ttask, tres, tout>>

\* the for-await on the ended subscription with nothing left to yield: the
\* iterator ends, and execute returns the timeout text, or it throws the
\* timeout error into the outer catch
ToolWaitEnds(aborted) ==
  /\ tpc = "waiting"
  /\ tsub = "ended"
  /\ tres \notin ResultKinds
  /\ tout' \in {"timeout", OuterCatch(aborted)}
  /\ tpc' = Returned(tout')
  /\ UNCHANGED <<mainVars, engVars, tstep, tsub, ttask, tres>>

\* the process shuts down before or while the tool call is under way:
\* nc.drain() closes the connection and ends its subscriptions
ToolDrain ==
  /\ link = "up"
  /\ tpc \notin {"returned", "threw"}
  /\ link' = "closed"
  /\ connected' = FALSE
  /\ tsub' = IF tsub = "active" THEN "ended" ELSE tsub
  /\ UNCHANGED <<cfg, attempts, gauge, mainpc, reconVars, schedVars, engVars, tpc, tstep,
                 ttask, tres, tout>>

NextTool ==
  \/ \E empty \in BOOLEAN : ToolCall(empty)
  \/ ToolStep
  \/ \E aborted \in BOOLEAN : ToolStepThrows(aborted)
  \/ ToolPublishAck
  \/ \E aborted \in BOOLEAN : ToolPublishFail(aborted)
  \/ \E r \in ResultKinds : Respond(r)
  \/ ToolReceive
  \/ SubTimeout
  \/ \E aborted \in BOOLEAN : ToolWaitEnds(aborted)
  \/ ToolDrain

\* --------------------------------------------------------- specifications
Startup ==
  \/ ConnectOk \/ ConnectFail
  \/ InfoFound \/ InfoNotFound \/ InfoError
  \/ DeleteOk \/ DeleteFail
  \/ AddOk \/ AddFail
  \/ ConsumeOk \/ ConsumeFail

Task(m) ==
  \/ Admit(m)
  \/ EngineReturn(m) \/ EngineThrow(m)
  \/ PublishOk(m) \/ PublishFail(m)
  \/ ErrorPublishOk(m) \/ ErrorPublishFail(m)

Shutdown == Signal \/ GraceElapse \/ PollDone \/ DrainDone \/ Exit

Next ==
  \/ Startup
  \/ \E m \in Msgs, p \in CorePayloads : Intake(m, p)
  \/ \E m \in Msgs : Task(m)
  \/ Shutdown

Spec == Init /\ [][Next]_vars

\* The state in which main has connected, subscribe has created the consumer
\* on a broker that had none, and the message loop has just been started.
InitRunning ==
  /\ cfg \in {c \in Configs : c.subscribeTopics = <<1, 2>> /\ c.taskTimeoutMs = 1800000}
  /\ srv = Some(DesiredConfig(cfg))
  /\ srv0 = None
  /\ mainpc = "running"
  /\ link = "up"
  /\ connected = TRUE
  /\ attempts = 0
  /\ gauge = 1
  /\ ops = <<"info", "create">>
  /\ failed = {}
  /\ reconciled = TRUE
  /\ run = 1
  /\ everOk = FALSE
  /\ prevOps = <<>>
  /\ InitSched
  /\ InitEngine
  /\ InitTool

NextRunning ==
  \/ \E m \in Msgs, p \in CorePayloads : Intake(m, p)
  \/ \E m \in Msgs : Task(m)
  \/ Shutdown

\* The running process, with every await settling: the loop body runs for a
\* yielded task, the engine call returns or throws, publishes answer, timers
\* fire.  Message arrival and signals are up to the environment.
LiveSpec ==
  /\ InitRunning
  /\ [][NextRunning]_vars
  /\ \A m \in Msgs : WF_vars(Task(m))
  /\ WF_vars(PollDone \/ DrainDone \/ Exit)

NextIntake ==
  \/ \E m \in Msgs, p \in Payloads : Intake(m, p)
  \/ \E m \in Msgs : Task(m)
  \/ Shutdown

\* The running process fed with every kind of payload.
IntakeSpec == InitRunning /\ [][NextIntake]_vars

NextTimed ==
  \/ NextRunning
  \/ \E m \in Msgs : Timeout(m)

\* The running process with task timers that may fire.
TimerSpec == InitRunning /\ [][NextTimed]_vars

\* The running process in which time passes and the calls of shutdown()
\* settle, while engine calls need not return.
GraceSpec ==
  /\ InitRunning
  /\ [][NextRunning]_vars
  /\ \A m \in Msgs : WF_vars(Admit(m))
  /\ WF_vars(GraceElapse)
  /\ WF_vars(PollDone \/ DrainDone \/ Exit)

\* the steps of processTask for m other than the settling of its engine call
TaskButEngine(m) ==
  \/ Admit(m)
  \/ PublishOk(m) \/ PublishFail(m)
  \/ ErrorPublishOk(m) \/ ErrorPublishFail(m)

\* The running process in which the engine call of the first task need not
\* ever return, while every other await settles.
StuckSpec ==
  /\ InitRunning
  /\ [][NextRunning]_vars
  /\ WF_vars(TaskButEngine(1))
  /\ \A m \in Msgs \ {1} : WF_vars(Task(m))
  /\ WF_vars(PollDone \/ DrainDone \/ Exit)

NextSignals == NextRunning \/ Shutdown2

\* The running process when a termination signal may arrive twice.
SignalSpec == InitRunning /\ [][NextSignals]_vars

NextTimeouts ==
  \/ \E m \in Msgs, p \in TimedPayloads : Intake(m, p)
  \/ \E m \in Msgs : Task(m)

\* The running process, before any termination signal, fed by a dispatcher
\* that sets timeouts for some tasks.
TimeoutSpec == InitRunning /\ [][NextTimeouts]_vars

\* One nats_request call made by the agent of a running task.
ToolSpec == InitRunning /\ [][NextTool]_vars

\* The task executor under the calls the scheduler makes.
EngineSpec == InitRunning /\ [][NextEngine]_vars

NextConn == Next \/ Conn

\* The process from startup on, with the connection going down and coming
\* back.
InitConn ==
  /\ cfg = [subscribeTopics |-> <<1, 2>>, taskTimeoutMs |-> 1800000,
            maxConcurrentTasks |-> 1]
  /\ srv \in {None, Some([DesiredConfig(cfg) EXCEPT !.max_deliver = 5])}
  /\ InitRun
  /\ InitSched
  /\ InitEngine
  /\ InitTool

ConnSpec == InitConn /\ [][NextConn]_vars

\* The process ends (fatal exit, kill or crash) and is started again with the
\* same configuration; the durable consumer stays on the broker.
Restart ==
  /\ mainpc \in {"fatal", "running"}
  /\ run < MaxRuns
  /\ run' = run + 1
  /\ everOk' = (everOk \/ reconciled)
  /\ prevOps' = ops
  /\ srv0' = srv
  /\ mainpc' = "connect"
  /\ ops' = <<>>
  /\ failed' = {}
  /\ reconciled' = FALSE
  /\ link' = "none"
  /\ connected' = FALSE
  /\ attempts' = 0
  /\ gauge' = 0
  /\ UNCHANGED <<cfg, engVars, toolVars, srv, schedVars>>

NextRecon == Startup \/ Restart

ReconSpec == InitRecon /\ [][NextRecon]_vars

\* SUBSCRIBE_TOPICS is split at commas and trimmed, nothing more: a topic
\* named twice stays twice in subscribeTopics.
DupConfigs ==
  [subscribeTopics : {<<1, 2>>, <<2, 1>>, <<1, 2, 1>>, <<1, 1>>},
   taskTimeoutMs : {1800000}, maxConcurrentTasks : {2}]

InitDup ==
  /\ cfg \in DupConfigs
  /\ srv \in {None} \cup
       {Some(e) : e \in {x \in ServerConfigs :
                          /\ x.deliver_policy = DeliverNew
                          /\ x.max_deliver = DesiredMaxDeliver
                          /\ x.ack_wait = ExpectedAckWait(cfg)}}
  /\ InitRun
  /\ InitSched
  /\ InitEngine
  /\ InitTool

\* Startup and restart with topic lists that may name a topic twice, against
\* consumers that differ from the desired one in their filters at most.
DupSpec == InitDup /\ [][NextRecon]_vars

\* ------------------------------------------------------------------ claims
Has(m, e) == \E i \in DOMAIN elog[m] : elog[m][i] = e

IsPrefix(a, b) == Len(a) <= Len(b) /\ \A i \in DOMAIN a : a[i] = b[i]

Attempts(m) == Count(elog[m], "pubS") + Count(elog[m], "pubE")

\* C1: in every reachable state activeCount <= maxConcurrentTasks, also right
\* after a completion that dispatched the next queued task in the same step.
C1_ActiveBound == activeCount <= cfg.maxConcurrentTasks

\* the scheduler is full, a task waits, and a completion has already handed
\* a queued task its slot
C1_Witness ==
  /\ activeCount = cfg.maxConcurrentTasks
  /\ Len(taskQueue) > 0
  /\ deqLog # <<>>

\* C2: the tasks queued at capacity are dispatched in the order in which
\* they were queued, which is their arrival order.
C2_Fifo ==
  /\ IsPrefix(deqLog, enqLog)
  /\ \A i, j \in DOMAIN enqLog : i < j => enqLog[i] < enqLog[j]

\* two tasks that arrived at capacity have both been released, in their
\* arrival order
C2_Witness ==
  /\ Len(deqLog) >= 2
  /\ deqLog = enqLog

\* C3: every message the iterator takes is acknowledged exactly once, and the
\* ack is the first thing done for it: before decoding, the empty check, the
\* yield, queueing and the engine call.
C3_AckFirstOnce ==
  \A m \in Msgs :
    /\ Count(elog[m], "ack") <= 1
    /\ elog[m] # <<>> => elog[m][1] = "ack"
    /\ st[m] # "none" => Has(m, "ack")

\* one message was dropped as empty and another was queued and then executed
C3_Witness ==
  /\ \E m \in Msgs : st[m] = "dropped"
  /\ \E m \in Msgs : Has(m, "enqueue") /\ Has(m, "dispatch")

\* C4 (as claimed): at most one publishResult call is made per task.
C4_OnePublishAttempt == \A m \in Msgs : Attempts(m) <= 1

\* C5 (as claimed): every yielded task eventually gets a result publish
\* attempt, given that engine calls return.
C5_Original == \A m \in Msgs : (st[m] = "yielded") ~> (Attempts(m) >= 1)

\* C5 (amended): a task yielded while no termination signal has been received
\* is admitted and eventually gets a result publish attempt, unless the
\* process exits first.
C5_Amended ==
  \A m \in Msgs :
    (st[m] = "yielded" /\ ~shuttingDown) ~> (Attempts(m) >= 1 \/ mainpc = "exited")

\* a task that had to wait in the queue has had its result publish attempted
C5_Witness == \E m \in Msgs : Has(m, "enqueue") /\ Attempts(m) >= 1

\* C6: a task is handed to the engine at most once; on arrival it is either
\* dispatched or queued, and it is in the queue exactly from its enqueue to
\* its dispatch.
C6_AtMostOnce ==
  \A m \in Msgs :
    /\ Count(elog[m], "dispatch") <= 1
    /\ Count(elog[m], "enqueue") <= 1
    /\ Count(taskQueue, m) <= 1
    /\ Count(deqLog, m) <= 1
    /\ Count(taskQueue, m) = 1 <=> (Has(m, "enqueue") /\ ~Has(m, "dispatch"))
    /\ Count(deqLog, m) = 1 <=> (Has(m, "enqueue") /\ Has(m, "dispatch"))
    /\ st[m] = "queued" <=> Count(taskQueue, m) = 1

\* one task ran straight away, another ran after waiting in the queue, and
\* both are finished
C6_Witness ==
  \E m, n \in Msgs :
    /\ st[m] = "done" /\ ~Has(m, "enqueue")
    /\ st[n] = "done" /\ Has(n, "enqueue")

\* The claims' reading of a consumer that matches the desired spec.
FilterSet(e) ==
  (IF e.filter_subjects # None THEN Range(e.filter_subjects[1]) ELSE {})
  \cup (IF e.filter_subject # None THEN {e.filter_subject[1]} ELSE {})

SameSpec(e, c) ==
  /\ FilterSet(e) = Range(c.subscribeTopics)
  /\ e.deliver_policy = DeliverNew
  /\ e.max_deliver = 1
  /\ e.ack_wait = c.taskTimeoutMs + 60000

MatchedAtStart == srv0 # None /\ SameSpec(srv0[1], cfg)

C8_NoDeleteAfterSuccess == everOk => Count(ops, "delete") = 0

\* the first run deleted and recreated the consumer, the second has
\* fetched the consumer info and reconciled
C8_Witness ==
  /\ run = 2
  /\ everOk
  /\ Count(prevOps, "delete") = 1
  /\ failed = {}
  /\ reconciled

C10_FailureIsFatal ==
  failed # {} =>
    /\ mainpc \notin {"consume", "running", "exited"}
    /\ \A m \in Msgs : st[m] = "none"

\* the tasks holding an execution slot: between dispatch and the finally block
InFlight == {m \in Msgs : st[m] \in {"exec", "pubS", "pubE"}}

\* the messages the iterator has taken, and the latest of them
Taken == {m \in Msgs : st[m] # "none"}

LastTaken == CHOOSE m \in Taken : \A n \in Taken : n <= m

\* the payloads whose resolved task text is empty or whitespace-only
EmptyPayloads == {"blank", "jsonEmptyTask"}

\* C11: a message whose resolved task text is empty or whitespace-only is
\* acknowledged and dropped: it is not yielded, never queued or dispatched,
\* takes no execution slot and gets no result publish.
C11_EmptyDropped ==
  /\ (Taken # {} /\ lastRaw \in EmptyPayloads) => kind[LastTaken] = "empty"
  /\ \A m \in Msgs :
       kind[m] = "empty" =>
         /\ elog[m] = <<"ack", "decode", "drop">>
         /\ st[m] = "dropped"
         /\ m \notin Range(taskQueue) /\ m \notin Range(enqLog)
  /\ activeCount = Cardinality(InFlight)

\* the payload {"task":"","task_id":"x1"} has just been dropped while an
\* earlier task is running
C11_Witness ==
  /\ Taken # {}
  /\ lastRaw = "jsonEmptyTask"
  /\ st[LastTaken] = "dropped"
  /\ \E n \in Msgs : n < LastTaken /\ st[n] = "exec"

\* the payloads JSON.parse or the property reads reject
UndecodablePayloads == {"text", "blank", "jsonNull"}

\* C12 (as claimed): whatever the payload, intake yields a Task or drops the
\* message and the loop goes on; on decode failure the task text is the raw
\* payload and the id the last subject segment.
C12_NoPayloadStopsIntake ==
  /\ \A m \in Taken : kind[m] \in {"task", "empty"}
  /\ mainpc # "crashed"
  /\ \A p \in UndecodablePayloads :
       ParsedTask(p) = [task |-> Str(Raw(p)), taskId |-> SubjectTaskId]

\* C13: once the shutdown flag is set no task coming from intake is admitted:
\* nothing is pushed on the queue, and the only tasks that start are those
\* that were already queued.
C13_NoAdmitWhileDraining ==
  [][shuttingDown =>
       /\ enqLog' = enqLog
       /\ \A m \in Msgs : (st'[m] = "exec" /\ st[m] # "exec") => st[m] = "queued"]_vars

\* a task that arrived after the signal was discarded by the loop's break
\* while an earlier task was still running
C13_Witness ==
  /\ shuttingDown
  /\ \E m, n \in Msgs : n < m /\ st[m] = "discarded" /\ st[n] = "exec"

\* C14: after a termination signal, once no task is active the coordinator
\* ends its wait and goes through drain to exit without the grace period
\* having to elapse (no fairness is assumed for the passing of the 60 s).
C14_EarlyExit ==
  (shuttingDown /\ activeCount = 0 /\ ~graceElapsed) ~> (mainpc = "exited")

\* the signal came while tasks were active (a later message was discarded
\* during the wait), they finished, and the process exited before the grace
\* period was over and without the warning
C14_Witness ==
  /\ mainpc = "exited"
  /\ ~graceElapsed
  /\ "warn" \notin Range(sdlog)
  /\ \E m, n \in Msgs : st[m] = "done" /\ st[n] = "discarded"

\* C15: after a termination signal the process exits even if an engine call
\* never returns: when the grace period has elapsed with tasks still active
\* the coordinator logs the warning and goes through drain to exit.
C15_ForcedExit ==
  /\ shuttingDown ~> (mainpc = "exited")
  /\ []((mainpc = "exited" /\ InFlight # {}) => "warn" \in Range(sdlog))
  /\ []("warn" \in Range(sdlog) => graceElapsed)

\* the process has exited with a task still in its engine call, after the
\* warning
C15_Witness ==
  /\ mainpc = "exited"
  /\ \E m \in Msgs : st[m] = "exec"
  /\ sdlog = <<"warn", "drain", "ncdrain", "stophealth", "done">>

\* the position of the first call e in the log of shutdown calls, 0 if none
FirstCall(e) ==
  IF e \in Range(sdlog)
    THEN CHOOSE i \in DOMAIN sdlog :
           sdlog[i] = e /\ \A j \in DOMAIN sdlog : sdlog[j] = e => i <= j
    ELSE 0

\* C16: shutdown closes the consumer, then drains the connection, then stops
\* the HTTP server, then exits: none of these calls is made before the one
\* that precedes it in this order has been made, and when the process has
\* exited all of them have been made, the exit last.  This holds also when
\* a second signal starts the sequence again.
C16_ShutdownOrder ==
  /\ \A i \in 1..3 :
       LET order == <<"drain", "ncdrain", "stophealth", "done">>
       IN FirstCall(order[i + 1]) > 0 =>
            /\ FirstCall(order[i]) > 0
            /\ FirstCall(order[i]) < FirstCall(order[i + 1])
  /\ mainpc = "exited" =>
       /\ FirstCall("done") = Len(sdlog)
       /\ FirstCall("stophealth") > 0
  /\ sdpc \in {"drain", "ncdrain", "stophealth", "done"} => FirstCall(sdpc) > 0

\* the process has exited after a task was completed and the connection
\* was drained
C16_Witness ==
  /\ mainpc = "exited"
  /\ link = "closed"
  /\ \E m \in Msgs : st[m] = "done"

\* C17: the step in which a task's timeout fires releases no slot, publishes
\* nothing and starts nothing: the task stays in its engine call and
\* activeCount is unchanged.  While the engine call is pending no result has
\* been published for the task and it is counted in activeCount.
C17_TimeoutKeepsSlot ==
  /\ [](\A m \in Msgs : st[m] = "exec" => Attempts(m) = 0)
  /\ [](activeCount = Cardinality({m \in Msgs : st[m] \in {"exec", "pubS", "pubE"}}))
  /\ [][\A m \in Msgs :
          Count(elog'[m], "abort") > Count(elog[m], "abort") =>
            /\ st[m] = "exec" /\ st'[m] = "exec"
            /\ activeCount' = activeCount
            /\ taskQueue' = taskQueue
            /\ Count(elog'[m], "pubS") = Count(elog[m], "pubS")
            /\ Count(elog'[m], "pubE") = Count(elog[m], "pubE")]_vars

\* a task's timeout has fired, its engine call goes on, every slot is taken
\* and a task waits in the queue
C17_Witness ==
  /\ \E m \in Msgs : Has(m, "abort") /\ st[m] = "exec" /\ Attempts(m) = 0
  /\ activeCount = cfg.maxConcurrentTasks
  /\ Len(taskQueue) > 0

\* C18: when the engine call throws, the one record published for the task
\* has success=false, cost 0 and tokens {0,0}; the process keeps running, the
\* slot is released and the task completes.
C18_EngineFailure ==
  /\ [](\A m \in Msgs :
          Has(m, "throw") =>
            /\ Attempts(m) = 1
            /\ \A i \in DOMAIN elog[m] :
                 elog[m][i] \in {"pubS", "pubE"} =>
                   RecordOf(elog[m][i]) =
                     [success |-> FALSE, cost |-> 0, tokensIn |-> 0, tokensOut |-> 0])
  /\ [](mainpc \in {"running", "exited"})
  /\ [](activeCount = Cardinality(InFlight))
  /\ \A m \in Msgs : Has(m, "throw") ~> (st[m] = "done" \/ mainpc = "exited")

\* a task whose engine call threw is finished, and a task queued meanwhile
\* was dispatched after it
C18_Witness ==
  \E m, n \in Msgs :
    /\ Has(m, "throw") /\ st[m] = "done"
    /\ Has(n, "enqueue") /\ Has(n, "dispatch")

\* C19 (as claimed): a task whose timeout fired before the engine returned
\* gets no success record.
C19_TimeoutGivesError ==
  \A m \in Msgs : Has(m, "abort") => ~Has(m, "pubS")

\* C20: a failed initial connection ends startup before any consumer call or
\* message; afterwards the connection is closed only by the drain of
\* shutdown, the process exits only through shutdown, and no disconnect or
\* error event changes the position of main.
C20_ConnectionFailures ==
  /\ []((mainpc = "fatal" /\ link = "none") =>
          /\ ops = <<>> /\ srv = srv0 /\ ~reconciled
          /\ \A m \in Msgs : st[m] = "none")
  /\ [](link = "none" => mainpc \in {"connect", "fatal"})
  /\ [](link = "closed" => "stophealth" \in Range(sdlog))
  /\ [](mainpc = "exited" => sdpc = "done")
  /\ [][(link' # link \/ connected' # connected) /\ mainpc # "connect"
          => mainpc' = mainpc]_vars

\* the connection is down, the client has made reconnect attempts and is
\* still trying, and the process runs with a task in its engine call
C20_Witness ==
  /\ mainpc = "running"
  /\ link = "down"
  /\ attempts = MaxAttempts
  /\ \E m \in Msgs : st[m] = "exec"

\* C21: intake never waits for a task: while messages remain and no signal
\* has come, the iterator can take the next message or the loop body can run
\* for the yielded one, whatever the tasks in flight are doing; a task
\* yielded at capacity goes to the end of the queue in that step, and the
\* queue has no length limit.
C21_IntakeNeverBlocks ==
  /\ []((mainpc = "running" /\ sdpc = "idle" /\ \E m \in Msgs : st[m] = "none")
          => \/ ENABLED (\E m \in Msgs, p \in CorePayloads : Intake(m, p))
             \/ ENABLED (\E m \in Msgs : Admit(m)))
  /\ [][\A m \in Msgs :
          (st[m] = "yielded" /\ ~shuttingDown
             /\ activeCount = cfg.maxConcurrentTasks /\ st'[m] # "yielded")
            => /\ st'[m] = "queued"
               /\ taskQueue' = Append(taskQueue, m)
               /\ activeCount' = activeCount]_vars

\* every slot is held by a task still in its engine call, nothing has
\* completed, and all later messages have been acknowledged and queued
C21_Witness ==
  /\ activeCount = cfg.maxConcurrentTasks
  /\ \A m \in Msgs : st[m] \in {"exec", "queued"} /\ Has(m, "ack")
  /\ Len(taskQueue) = MaxMsgs - cfg.maxConcurrentTasks
  /\ deqLog = <<>>

\* C22 (as claimed): handling a reconnect of the broker connection starts a
\* consumer reconciliation: the consumer's info is fetched again.
C22_ReconcileOnReconnect ==
  [][(link = "down" /\ link' = "up")
       => Count(ops', "info") = Count(ops, "info") + 1]_vars

\* C23 (as claimed): for a task whose engine call returned, every record
\* published has success=true and the task is not counted as an error,
\* whatever the publish call does.
C23_FlagEqualsEngineOutcome ==
  \A m \in Msgs :
    Has(m, "return") =>
      /\ \A i \in DOMAIN elog[m] :
           elog[m][i] \in {"pubS", "pubE"} => RecordOf(elog[m][i]).success
      /\ ~Has(m, "countE")

\* C24 (as claimed): the filter comparison is set equality: with the other
\* three fields equal and the consumer's info fetched, the run deletes the
\* consumer exactly if its filter subjects, as a set, differ from the
\* configured topics as a set.
C24_FilterSetEquality ==
  (/\ srv0 # None
   /\ "info" \in Range(ops) /\ "info" \notin failed
   /\ mainpc \notin {"connect", "info"}
   /\ srv0[1].deliver_policy = DeliverNew
   /\ srv0[1].max_deliver = 1
   /\ srv0[1].ack_wait = cfg.taskTimeoutMs + 60000)
    => (Count(ops, "delete") >= 1 <=> FilterSet(srv0[1]) # Range(cfg.subscribeTopics))

\* C25 (as claimed): shutdown moves only forward (the flag is never cleared,
\* an exited process stays exited) and each of its calls, closing the
\* consumer, draining the connection, stopping the HTTP server and exiting,
\* is made at most once, also when a second signal arrives.
C25_ShutdownOnce ==
  /\ [](/\ Count(sdlog, "drain") <= 1
        /\ Count(sdlog, "ncdrain") <= 1
        /\ Count(sdlog, "stophealth") <= 1
        /\ Count(sdlog, "done") <= 1)
  /\ [][shuttingDown => shuttingDown']_vars
  /\ [][mainpc = "exited" => mainpc' = "exited"]_vars

\* C26: work conservation.  Whenever control is back at the event loop a
\* non-empty queue means every slot is taken; a completion that finds the
\* queue non-empty dispatches its head in the same step, leaving activeCount
\* as it was; and a task is dispatched straight from intake only when the
\* queue is empty, so it never overtakes a queued task.
C26_WorkConservation ==
  /\ [](Len(taskQueue) > 0 => activeCount = cfg.maxConcurrentTasks)
  /\ [][\A m \in Msgs :
          (st[m] \in {"pubS", "pubE"} /\ st'[m] = "done" /\ taskQueue # <<>>)
            => /\ st'[Head(taskQueue)] = "exec"
               /\ taskQueue' = Tail(taskQueue)
               /\ activeCount' = activeCount]_vars
  /\ [][\A m \in Msgs :
          (st[m] = "yielded" /\ st'[m] = "exec") => taskQueue = <<>>]_vars

\* Scenario 1: maxConcurrent = 2; A and B started, C was queued; A has
\* finished and C runs beside B
C26_Witness ==
  /\ cfg.maxConcurrentTasks = 2
  /\ st[1] = "done" /\ st[2] = "exec" /\ st[3] = "exec"
  /\ enqLog = <<3>> /\ deqLog = <<3>>
  /\ ~Has(1, "enqueue") /\ ~Has(2, "enqueue")

\* C27: every queued task is eventually dispatched unless the process exits
\* first, given that the engine calls holding the slots return or throw.
\* The engine call of task 1 may never return: it delays the queue only
\* when it holds the only slot.
C27_QueuedEventuallyDispatched ==
  \A m \in Msgs :
    (st[m] = "queued" /\ ~(cfg.maxConcurrentTasks = 1 /\ st[1] = "exec"))
      ~> (Has(m, "dispatch") \/ mainpc = "exited")

\* with two slots, task 1 is still in its engine call while a task that
\* was queued behind it has been dispatched after task 2 finished
C27_Witness ==
  /\ cfg.maxConcurrentTasks = 2
  /\ st[1] = "exec" /\ st[2] = "done"
  /\ Has(3, "enqueue") /\ Has(3, "dispatch")

\* C28 (as claimed): while the process runs, the connectivity status is
\* true exactly when the broker connection is established.
C28_StatusTracksConnection ==
  ProcessUp => (connected <=> link = "up")

\* C29 (as claimed): after every transition of the broker connection
\* (connect, disconnect, reconnect, drain) the natsConnected gauge is 1
\* exactly when the connectivity status is true.
C29_GaugeFollowsStatus ==
  [][link' # link => (gauge' = 1 <=> connected')]_vars

\* the scheduler's quantities that the health server is to expose
SchedulerValues ==
  [activeTasks |-> activeCount, queueLength |-> Len(taskQueue)]

\* C30 (as claimed): after every scheduler transition the health server
\* exposes the scheduler's activeCount and queue length, and /ready answers
\* 200 exactly when the connectivity status is true and 503 otherwise.
C30_HealthSeesScheduler ==
  [][(activeCount' # activeCount \/ taskQueue' # taskQueue)
       => /\ ReadyResponse'.code = (IF connected' THEN 200 ELSE 503)
          /\ \A q \in DOMAIN SchedulerValues :
               /\ q \in DOMAIN ReadyResponse
               /\ ReadyResponse'[q] = SchedulerValues'[q]]_vars

\* the parts of C30 that the health server does provide
C30_ActiveTasksAndReadiness ==
  /\ ReadyResponse.activeTasks = activeCount
  /\ ReadyResponse.code = 200 <=> connected
  /\ ReadyResponse.code = 503 <=> ~connected

\* C31: a message is taken, acknowledged or executed only after the broker
\* connection was established and consumers.add resolved; subscribe without
\* a connection throws instead of reaching the consumer.
C31_NothingBeforeReady ==
  /\ (\E m \in Msgs : st[m] # "none" \/ elog[m] # <<>>)
       => (link # "none" /\ reconciled /\ "add" \notin failed)
  /\ mainpc \in {"consume", "running", "crashed", "exited"}
       => (link # "none" /\ reconciled)
  /\ SubscribeEntry("none") = "fatal"

\* a task has been acknowledged and dispatched in a run whose subscribe had
\* to delete and recreate the consumer
C31_Witness ==
  /\ \E m \in Msgs : Has(m, "ack") /\ Has(m, "dispatch")
  /\ "delete" \in Range(ops)
  /\ reconciled

\* the tasks for which processTask has run its finally block
Completed == {m \in Msgs : Has(m, "countS") \/ Has(m, "countE")}

\* the tasks for which processTask was called
Dispatched == {m \in Msgs : Has(m, "dispatch")}

\* C32: activeCount equals the number of tasks dispatched and not yet
\* completed; each task is counted in once and out once, whether it ends in
\* success, engine failure or publish failure; activeCount is never negative.
C32_ActiveCountIsInFlight ==
  /\ activeCount = Cardinality(Dispatched \ Completed)
  /\ activeCount >= 0
  /\ Completed \subseteq Dispatched
  /\ \A m \in Msgs :
       /\ Count(elog[m], "dispatch") <= 1
       /\ Count(elog[m], "countS") + Count(elog[m], "countE") <= 1

\* three tasks have completed, one in success, one after the engine threw
\* and one after the success publish failed, and the count is back at 0
C32_Witness ==
  /\ activeCount = 0
  /\ \E a, b, c \in Msgs :
       /\ Has(a, "countS")
       /\ Has(b, "throw") /\ Has(b, "countE")
       /\ Has(c, "return") /\ Has(c, "countE")

\* shutdown() has left its wait and called drain() without log.warn
WaitEndedIdle == "drain" \in Range(sdlog) /\ "warn" \notin Range(sdlog)

\* C33: a completion during shutdown hands its slot to the head of the
\* queue as it does before the signal; activeCount is never 0 while the
\* queue holds a task; so when the wait of shutdown() ends without the
\* warning, every task that was queued has run to completion.
C33_QueueDrainsDuringShutdown ==
  /\ [](~(activeCount = 0 /\ taskQueue # <<>>))
  /\ [](WaitEndedIdle =>
          /\ taskQueue = <<>>
          /\ \A m \in Msgs : Has(m, "enqueue") => st[m] = "done")
  /\ [][\A m \in Msgs :
          (shuttingDown /\ st[m] # "done" /\ st'[m] = "done" /\ taskQueue # <<>>)
            => /\ taskQueue' = Tail(taskQueue)
               /\ st'[Head(taskQueue)] = "exec"
               /\ Head(taskQueue) \in lateShift']_vars

\* the wait of shutdown() has ended without the warning, after polling, and
\* a task shifted off the queue after the signal has completed
C33_Witness ==
  /\ WaitEndedIdle
  /\ \E m \in lateShift : st[m] = "done"

\* C34 (as claimed): the cost reported for a task is the cost its own prompt
\* ran up, and the result text is its own last assistant output, also when
\* two tasks run on the shared session at the same time.
C34_UsageIsOwn ==
  \A t \in Calls :
    epc[t] = "returned" =>
      /\ taskCost[t] = own[t]
      /\ own[t] > 0 => resultText[t] = t

\* C34 holds when the scheduler runs one task at a time
C34_UsageIsOwnWhenSerial ==
  cfg.maxConcurrentTasks = 1 => C34_UsageIsOwn

\* C35 (as claimed): the expiry of a task's timer aborts only that task's
\* own engine call.
C35_AbortIsPerTask ==
  \A u \in Calls : abortedBy[u] \subseteq {u}

\* C36 (as claimed): createAgentSession is called at most once per process
\* and every task runs on that one session.
C36_OneSession ==
  /\ created <= 1
  /\ \A t, u \in Calls : (sessOf[t] # 0 /\ sessOf[u] # 0) => sessOf[t] = sessOf[u]

\* C37: the delay of a task's timer is the timeout its message carried, or
\* the configured default if it carried none, whether the task was
\* dispatched by the loop or from the queue; the timer is started at
\* dispatch, so a task waiting in the queue has none.
C37_TimerUsesOwnTimeout ==
  /\ \A m \in Msgs :
       /\ Has(m, "dispatch") <=> timerMs[m] # NoMs
       /\ Has(m, "dispatch") =>
            timerMs[m] = (IF parsedMs[m] # NoMs THEN parsedMs[m]
                          ELSE cfg.taskTimeoutMs)
       /\ st[m] = "queued" => timerMs[m] = NoMs
  /\ ParsedTimeoutMs("jsonTask") = NoMs
  /\ ParsedTimeoutMs("jsonTaskTimeout") = 5000
  /\ ParsedTimeoutMs("jsonTaskTimeoutCamel") = 0

\* a task that carried a timeout of 5000 ms was dispatched from the queue,
\* a task that carried none was dispatched by the loop, and a third task
\* is still waiting in the queue
C37_Witness ==
  \E m, n, k \in Msgs :
    /\ Has(m, "enqueue") /\ parsedMs[m] = 5000 /\ timerMs[m] = 5000
    /\ ~Has(n, "enqueue") /\ parsedMs[n] = NoMs /\ timerMs[n] = cfg.taskTimeoutMs
    /\ st[k] = "queued" /\ parsedMs[k] # NoMs

\* the texts execute returns, by kind
ToolTexts ==
  {"notconnected", "empty", "response", "failure", "raw", "timeout", "error",
   "cancelled"}

\* C38: the subscription on the result subject exists before the task is on
\* its way, so a result published after the task is delivered to it unless
\* the subscription has ended by then (timeout or shutdown); a buffered
\* result is what execute returns; execute returns a text in every outcome
\* and never throws.
C38_SubscribeBeforePublish ==
  /\ ttask = "sent" => tsub # "none"
  /\ tres = "lost" => tsub = "ended"
  /\ tout \in {"response", "failure", "raw"} => tres \in ResultKinds
  /\ tpc # "threw"
  /\ tpc = "returned" <=> tout \in ToolTexts
  /\ tpc # "returned" => tout = "none"

\* the other knight's success record reached the subscription and execute
\* has returned it as the response
C38_Witness ==
  /\ tpc = "returned"
  /\ tout = "response"
  /\ tres = "success"

====
